---------------------------- MODULE Spec2Model ----------------------------
(***************************************************************************)
(* A state-machine model of casadi::CodeGenerator                          *)
(* (src/casadi/core/code_generator.cpp): the constant pools, the           *)
(* shorthands, the registration of functions, the auxiliary resolver, the  *)
(* formatted text buffer and the dispatchers of generate_mex and           *)
(* generate_main.                                                          *)
(*                                                                         *)
(* Every method is an operator from the generator's state (a record g      *)
(* with one field per member) to the state it leaves behind; g.ret is the  *)
(* value the method returns and g.error the message of the exception it    *)
(* throws ("none" when it returns).  An action applies one public method   *)
(* to the current state and commits the result.                            *)
(*                                                                         *)
(* Text is a sequence of fragments.  The formatted buffer (SpecEmit) works *)
(* on single characters; registration works on whole lines, written as     *)
(* tuples of strings; the auxiliary section holds one record per template  *)
(* expansion.                                                              *)
(***************************************************************************)
EXTENDS Integers, Sequences, FiniteSets, TLC

VARIABLES
  double_constants_,        \* vector<vector<double>>: the double pool
  added_double_constants_,  \* multimap<size_t, size_t>: hash -> index
  integer_constants_,       \* vector<vector<int>>: the integer pool
  added_integer_constants_, \* multimap<size_t, size_t>: hash -> index
  added_shorthands_,        \* set<string>
  added_functions_,         \* vector<FunctionMeta>: {f, codegen_name}
  exposed_fname,            \* vector<string>
  sparsity_meta,            \* set<string>
  added_auxiliaries_,       \* multimap<Auxiliary, vector<string>>
  added_includes_,          \* set<string>
  added_externals_,         \* set<string>
  includes,                 \* stringstream: the includes section
  with_header,              \* option
  buffer,                   \* stringstream: text not yet flushed
  body,                     \* stringstream: the body section
  header,                   \* stringstream: the header section
  auxiliaries,              \* stringstream: the auxiliary section
  newline_,                 \* bool: the next fragment starts a line
  current_indent_,          \* int: the indentation depth
  error,                    \* message of the exception thrown, or "none"
  returned,                 \* history: <<pool, payload, id>> of find-or-insert
  given_names,              \* history: <<f, name>> add_dependency returned
  named,                    \* history: <<pool, payload, name>> handed out
  sanitized,                \* history: <<src, inst, text>> of sanitize_source
  emitted,                  \* history: the lines emitted, in emission order
  calls,                    \* history: callbacks invoked, per function
  low_indent,               \* history: lowest depth the scan passed through
  rendered,                 \* history: dump() has returned
  steps,                    \* number of calls that changed the state
  entries_,                 \* vector<string>: the entry names of a scheme
  entrymap_,                \* map<string, int>: entry name -> index
  entry_call,               \* history: <<i, name, error>> of the last entry(i)
  index_call                \* history: <<name, i, error>> of the last index(n)

\* the members of the custom naming scheme and the history of its calls
scheme_vars == <<entries_, entrymap_, entry_call, index_call>>

vars == <<double_constants_, added_double_constants_, integer_constants_,
          added_integer_constants_, added_shorthands_, added_functions_,
          exposed_fname, sparsity_meta, added_auxiliaries_, added_includes_,
          added_externals_, includes, with_header,
          buffer, body, header, auxiliaries, newline_, current_indent_,
          error, returned, given_names, named, sanitized, emitted, calls,
          low_indent, rendered, steps, entries_, entrymap_, entry_call,
          index_call>>

---------------------------------------------------------------------------
(* Helpers on sequences and sets of naturals.                              *)

Min(S) == CHOOSE x \in S : \A y \in S : x <= y

MaxOf(S) == CHOOSE x \in S : \A y \in S : y <= x

Range(s) == {s[i] : i \in 1..Len(s)}

SeqsUpTo(S, n) == UNION {[1..k -> S] : k \in 0..n}

---------------------------------------------------------------------------
(* Bounds of the model.                                                    *)

\* longest payload handed to a pool
MaxLen == 2
\* most entries the two pools hold together
MaxPool == 3
\* width, in bits, of the modelled size_t hash value (64 in the build)
HashWidth == 3

HashMod == 2 ^ HashWidth

\* integer payload elements
IntVals == {0, 1}
\* double payload elements: +0.0, -0.0 and 1.0
DoubleVals == {"+0.0", "-0.0", "1.0"}

IntPayloads == SeqsUpTo(IntVals, MaxLen)
DoublePayloads == SeqsUpTo(DoubleVals, MaxLen)

---------------------------------------------------------------------------
(* Doubles: the value operator== compares and the object representation    *)
(* that hash() reads through reinterpret_cast<const size_t*>.              *)

\* the numeric value: +0.0 and -0.0 compare equal
DoubleValue(d) == IF d = "1.0" THEN 1 ELSE 0

\* the bit pattern, reduced to HashWidth bits: -0.0 is the sign bit alone,
\* 1.0 is the run of exponent bits below the sign bit
DoubleBits(d) ==
  CASE d = "+0.0" -> 0
    [] d = "-0.0" -> 2 ^ (HashWidth - 1)
    [] d = "1.0"  -> 2 ^ (HashWidth - 1) - 1

IntValue(i) == i

\* equal(v1, v2): same length and no position where v1[j] != v2[j]
equalDouble(v1, v2) ==
  /\ Len(v1) = Len(v2)
  /\ \A j \in 1..Len(v1) : DoubleValue(v1[j]) = DoubleValue(v2[j])

equalInt(v1, v2) ==
  /\ Len(v1) = Len(v2)
  /\ \A j \in 1..Len(v1) : IntValue(v1[j]) = IntValue(v2[j])

---------------------------------------------------------------------------
(* Hashing.                                                                *)

RECURSIVE BitXor(_, _)
BitXor(a, b) ==
  IF a = 0 THEN b
  ELSE IF b = 0 THEN a
  ELSE (((a % 2) + (b % 2)) % 2) + (2 * BitXor(a \div 2, b \div 2))

\* the additive constant of the combiner, 0x9e3779b9, cut to its low 16 bits
\* (0x79b9): only its low HashWidth bits reach the result
Golden == 31161

\* seed ^= v + 0x9e3779b9 + (seed << 6) + (seed >> 2), in HashWidth bits
hash_combine(seed, v) ==
  BitXor(seed, (v + Golden + (seed * 64) + (seed \div 4)) % HashMod)

\* hash_combine over a sequence of words, from the seed on
RECURSIVE hash_range(_, _)
hash_range(seed, w) ==
  IF w = <<>> THEN seed
  ELSE hash_range(hash_combine(seed, Head(w)), Tail(w))

\* hash(const vector<double>&): combines the words of the object
\* representation, one size_t word per double, from seed 0
hashDouble(v) == hash_range(0, [i \in 1..Len(v) |-> DoubleBits(v[i])])

\* hash(const vector<int>&): combines the elements, from seed 0
hashInt(v) == hash_range(0, [i \in 1..Len(v) |-> IntValue(v[i])])


---------------------------------------------------------------------------
(* The generator's state as a record, and the commit of a call's result.   *)

G == [double_constants_ |-> double_constants_,
      added_double_constants_ |-> added_double_constants_,
      integer_constants_ |-> integer_constants_,
      added_integer_constants_ |-> added_integer_constants_,
      added_shorthands_ |-> added_shorthands_,
      added_functions_ |-> added_functions_,
      exposed_fname |-> exposed_fname,
      sparsity_meta |-> sparsity_meta,
      added_auxiliaries_ |-> added_auxiliaries_,
      added_includes_ |-> added_includes_,
      added_externals_ |-> added_externals_,
      includes |-> includes,
      with_header |-> with_header,
      buffer |-> buffer,
      body |-> body,
      header |-> header,
      auxiliaries |-> auxiliaries,
      newline_ |-> newline_,
      current_indent_ |-> current_indent_,
      error |-> error,
      returned |-> returned,
      given_names |-> given_names,
      named |-> named,
      sanitized |-> sanitized,
      emitted |-> emitted,
      calls |-> calls,
      low_indent |-> low_indent,
      rendered |-> rendered,
      ret |-> ""]

\* the members and histories of g, without the returned value
Members(g) == [g EXCEPT !.ret = ""]

Commit(g) ==
  /\ double_constants_' = g.double_constants_
  /\ added_double_constants_' = g.added_double_constants_
  /\ integer_constants_' = g.integer_constants_
  /\ added_integer_constants_' = g.added_integer_constants_
  /\ added_shorthands_' = g.added_shorthands_
  /\ added_functions_' = g.added_functions_
  /\ exposed_fname' = g.exposed_fname
  /\ sparsity_meta' = g.sparsity_meta
  /\ added_auxiliaries_' = g.added_auxiliaries_
  /\ added_includes_' = g.added_includes_
  /\ added_externals_' = g.added_externals_
  /\ includes' = g.includes
  /\ with_header' = g.with_header
  /\ buffer' = g.buffer
  /\ body' = g.body
  /\ header' = g.header
  /\ auxiliaries' = g.auxiliaries
  /\ newline_' = g.newline_
  /\ current_indent_' = g.current_indent_
  /\ error' = g.error
  /\ returned' = g.returned
  /\ given_names' = g.given_names
  /\ named' = g.named
  /\ sanitized' = g.sanitized
  /\ emitted' = g.emitted
  /\ calls' = g.calls
  /\ low_indent' = g.low_indent
  /\ rendered' = g.rendered
  /\ steps' = IF Members(g) = G THEN steps ELSE steps + 1
  /\ UNCHANGED scheme_vars

\* a generator that threw is not used again: the failure aborts the artifact
Usable == error = "none"

---------------------------------------------------------------------------
(* str(n): the decimal text of a non-negative integer.                     *)

Digits == <<"0", "1", "2", "3", "4", "5", "6", "7", "8", "9">>

RECURSIVE str(_)
str(n) == IF n < 10 THEN Digits[n + 1]
          ELSE str(n \div 10) \o Digits[(n % 10) + 1]

---------------------------------------------------------------------------
(* get_constant: the lookup in the bucket of the payload's hash, and the   *)
(* append.  Indices are 0-based as in the code; pool[i + 1] is entry i.    *)

\* the index the loop over equal_range(h) returns, or -1 when it ends
\* without a match (entries of one key are visited in insertion order)
\* same: the indices of the entries equal() finds equal to the payload
Lookup(added, h, same) ==
  LET hit == {e[2] : e \in {x \in added : x[1] = h /\ x[2] \in same}}
  IN  IF hit = {} THEN -1 ELSE Min(hit)

\* get_constant(const vector<double>& v, bool allow_adding)
get_constant_double(g, v, allow_adding) ==
  LET h == hashDouble(v)
      same == {i \in 0..(Len(g.double_constants_) - 1) :
                 equalDouble(v, g.double_constants_[i + 1])}
      found == Lookup(g.added_double_constants_, h, same)
      ind == Len(g.double_constants_)
  IN  IF found # -1 THEN [g EXCEPT !.ret = found]
      ELSE IF allow_adding
      THEN [g EXCEPT !.double_constants_ = Append(@, v),
                     !.added_double_constants_ = @ \cup {<<h, ind>>},
                     !.ret = ind]
      ELSE [g EXCEPT !.error = "Constant not found", !.ret = -1]

\* get_constant(const vector<int>& v, bool allow_adding)
get_constant_int(g, v, allow_adding) ==
  LET h == hashInt(v)
      same == {i \in 0..(Len(g.integer_constants_) - 1) :
                 equalInt(v, g.integer_constants_[i + 1])}
      found == Lookup(g.added_integer_constants_, h, same)
      ind == Len(g.integer_constants_)
  IN  IF found # -1 THEN [g EXCEPT !.ret = found]
      ELSE IF allow_adding
      THEN [g EXCEPT !.integer_constants_ = Append(@, v),
                     !.added_integer_constants_ = @ \cup {<<h, ind>>},
                     !.ret = ind]
      ELSE [g EXCEPT !.error = "Constant not found", !.ret = -1]

\* the history of what find-or-insert returned
Returned(g, pool, v, allow_adding) ==
  IF allow_adding /\ g.error = "none"
  THEN [g EXCEPT !.returned = @ \cup {<<pool, v, g.ret>>}]
  ELSE g

PoolSize(g) == Len(g.double_constants_) + Len(g.integer_constants_)

GetConstantDouble ==
  /\ Usable
  /\ \E v \in DoublePayloads, allow_adding \in BOOLEAN :
       LET g == get_constant_double(G, v, allow_adding)
       IN  /\ PoolSize(g) <= MaxPool
           /\ Commit(Returned(g, "c", v, allow_adding))

GetConstantInt ==
  /\ Usable
  /\ \E v \in IntPayloads, allow_adding \in BOOLEAN :
       LET g == get_constant_int(G, v, allow_adding)
       IN  /\ PoolSize(g) <= MaxPool
           /\ Commit(Returned(g, "s", v, allow_adding))

---------------------------------------------------------------------------
(* The formatted buffer: operator<<, print_formatted, flush, and the       *)
(* consistency check of dump.  Here a text is a sequence of characters.    *)

\* the indentation width, an option with default 2
indent_ == 2

\* longest text handed to one operator<<
MaxFragment == 3
\* most characters emitted in all (indentation not counted)
MaxText == 5

Chars == {"{", "}", "x", "\n"}
Fragments == SeqsUpTo(Chars, MaxFragment) \ {<<>>}

\* string(n, ' ')
Spaces(n) == [i \in 1..n |-> " "]

\* indent() and unindent()
indent(g) == [g EXCEPT !.current_indent_ = @ + 1]

unindent(g) ==
  [g EXCEPT !.current_indent_ = @ - 1,
            !.low_indent = IF g.current_indent_ - 1 < @
                           THEN g.current_indent_ - 1 ELSE @]

\* the loop of print_formatted over the characters of s
RECURSIVE scan_brackets(_, _)
scan_brackets(g, s) ==
  IF s = <<>> THEN g
  ELSE scan_brackets(IF Head(s) = "{" THEN indent(g)
                     ELSE IF Head(s) = "}" THEN unindent(g)
                     ELSE g,
                     Tail(s))

\* print_formatted(const std::string& s), s without newline characters
print_formatted(g, s) ==
  IF s = <<>> THEN g
  ELSE LET shift == IF Head(s) = "}" THEN -1 ELSE 0
       IN  IF g.newline_ /\ g.current_indent_ + shift < 0
           THEN [g EXCEPT !.error = "current_indent_+shift>=0"]
           ELSE LET lead == IF g.newline_
                            THEN Spaces(indent_ * (g.current_indent_ + shift))
                            ELSE <<>>
                IN  scan_brackets([g EXCEPT !.buffer = @ \o lead \o s,
                                            !.newline_ = FALSE], s)

\* s.find('\n', 0): the position of the first newline, 0 when there is none
FindNewline(s) ==
  LET at == {i \in 1..Len(s) : s[i] = "\n"}
  IN  IF at = {} THEN 0 ELSE Min(at)

\* operator<<(const string& s): one print_formatted per line of s
RECURSIVE emit(_, _)
emit(g, s) ==
  LET pos == FindNewline(s)
  IN  IF pos = 0 THEN print_formatted(g, s)
      ELSE LET g1 == print_formatted(g, SubSeq(s, 1, pos - 1))
           IN  IF g1.error # "none" THEN g1
               ELSE emit([g1 EXCEPT !.buffer = Append(@, "\n"),
                                    !.newline_ = TRUE],
                         SubSeq(s, pos + 1, Len(s)))

\* dump(): the consistency check at its head; the text it prints is not
\* part of the state
dump(g) ==
  IF g.current_indent_ = 0 THEN [g EXCEPT !.rendered = TRUE]
  ELSE [g EXCEPT !.error = "current_indent_ == 0"]

\* the characters emitted so far, without the indentation
Emitted(text) == SelectSeq(text, LAMBDA c : c # " ")

Emit ==
  /\ Usable
  /\ \E s \in Fragments :
       LET g == emit([G EXCEPT !.rendered = FALSE], s)
       IN  /\ Len(Emitted(buffer)) + Len(s) <= MaxText
           /\ Commit(g)

Dump ==
  /\ Usable
  /\ Commit(dump(G))

---------------------------------------------------------------------------
(* Shorthands, sparsity patterns, flush and declare.  From here on a text  *)
(* is a sequence of lines, each a tuple of strings that starts with the    *)
(* kind of the line; the lines these methods emit are brace-balanced and   *)
(* end with a newline, so they leave newline_ and current_indent_ as they  *)
(* found them.                                                             *)

\* shorthand(name, allow_adding) without the assertion
shorthand_unchecked(g, name, allow_adding) ==
  [g EXCEPT !.added_shorthands_ = @ \cup {name},
            !.ret = "casadi_" \o name]

\* shorthand(const std::string& name, bool allow_adding)
shorthand(g, name, allow_adding) ==
  LET added == name \notin g.added_shorthands_
      g1 == [g EXCEPT !.added_shorthands_ = @ \cup {name}]
  IN  IF ~allow_adding /\ ~added
      THEN [g1 EXCEPT !.error = "Duplicate macro: " \o name]
      ELSE [g1 EXCEPT !.ret = "casadi_" \o name]

\* shorthand(const std::string& name) const
shorthand_const(g, name) ==
  IF name \in g.added_shorthands_
  THEN [g EXCEPT !.ret = "casadi_" \o name]
  ELSE [g EXCEPT !.error = "No such macro: " \o name]

\* add_sparsity(sp): a pattern is pooled as its vector of integers
add_sparsity(g, sp) == get_constant_int(g, sp, TRUE)

\* sparsity(sp)
sparsity(g, sp) ==
  LET g1 == add_sparsity(g, sp)
  IN  shorthand(g1, "s" \o str(g1.ret), TRUE)

\* operator<< of whole lines
put(g, line) ==
  [g EXCEPT !.buffer = Append(@, line), !.emitted = Append(@, line)]

\* flush with the buffer put in front of the section
flush_front(g) == [g EXCEPT !.body = g.buffer \o @, !.buffer = <<>>]

\* flush(this->body)
flush(g) == [g EXCEPT !.body = @ \o g.buffer, !.buffer = <<>>]

\* the decorations of declare: cpp is off, with_export is on
cpp_prefix == ""
dll_export == "CASADI_SYMBOL_EXPORT "

\* declare(std::string s)
declare(g, s) ==
  LET g1 == IF g.with_header
            THEN [g EXCEPT !.header =
                         Append(@, <<"declaration", cpp_prefix \o s \o ";">>)]
            ELSE g
  IN  [g1 EXCEPT !.ret = cpp_prefix \o dll_export \o s,
                 !.calls.declare = @ \cup {s}]

\* the loops of add_io_sparsities over sp: one case line per pattern,
\* g.ret collects the names sparsity() returned
RECURSIVE sparsity_cases(_, _, _)
sparsity_cases(g, sp, names) ==
  IF sp = <<>> THEN [g EXCEPT !.ret = names]
  ELSE LET g1 == sparsity(g, Head(sp))
       IN  sparsity_cases(g1, Tail(sp), names \o " " \o g1.ret)

\* add_io_sparsities(name, sp_in, sp_out)
add_io_sparsities(g, name, sp_in, sp_out) ==
  IF name \in g.sparsity_meta THEN g
  ELSE LET g1 == [g EXCEPT !.sparsity_meta = @ \cup {name}]
           g2 == declare(g1, "const int* " \o name \o "_sparsity_in(int i)")
           g3 == sparsity_cases(g2, sp_in, "switch")
           g4 == put(g3, <<"definition", g2.ret, g3.ret>>)
           g5 == declare(g4, "const int* " \o name \o "_sparsity_out(int i)")
           g6 == sparsity_cases(g5, sp_out, "switch")
       IN  put(g6, <<"definition", g5.ret, g6.ret>>)

---------------------------------------------------------------------------
(* The functions handed to the generator, and their callbacks.             *)

\* number of distinct Function objects
NumFunctions == 3
\* most state-changing calls in a run of the registration model
MaxAdds == 3

Functions == 1..NumFunctions

\* f.name()
name(f) == "fn" \o str(f)

\* f->signature(fname)
signature(fname) == "int " \o fname \o "(arg, res, iw, w, mem)"

\* the functions f->codegen_declarations registers, in call order:
\* function 2 calls function 1, function 3 calls functions 1 and 2
dependencies(f) ==
  IF f = 2 THEN <<1>> ELSE IF f = 3 THEN <<1, 2>> ELSE <<>>

\* f->has_refcount_
has_refcount_(f) == f = 2

\* f->sparsity_in_ and f->get_jacobian_sparsity()
sparsity_in_(f) == << <<1, f % 2>> >>
get_jacobian_sparsity(f) == <<1, 1>>

\* the entries of added_functions_ with e.f == f
FindFunctionNever(g, f) == {}

FindFunction(g, f) ==
  {i \in 1..Len(g.added_functions_) : g.added_functions_[i].f = f}

RECURSIVE add_dependency(_, _)

\* f->codegen_declarations(g): registers the functions f calls
RECURSIVE add_dependencies(_, _)
add_dependencies(g, fs) ==
  IF fs = <<>> THEN g
  ELSE add_dependencies(add_dependency(g, Head(fs)), Tail(fs))

codegen_declarations(g, f) ==
  add_dependencies([g EXCEPT !.calls.declarations[f] = @ + 1],
                   dependencies(f))

\* f->codegen(g, fname): the definition of fname
codegen(g, f, fname) ==
  put([g EXCEPT !.calls.codegen[f] = @ + 1], <<"codegen", fname, name(f)>>)

\* f->codegen_incref(g), f->codegen_decref(g): emit into the open function
codegen_incref(g, f) == g
codegen_decref(g, f) == g

\* f->codegen_meta(g)
codegen_meta(g, f) == put(g, <<"meta", name(f)>>)

\* add_dependency with the entry appended after the declarations
add_dependency_late(g, f) ==
  LET match == FindFunction(g, f)
  IN  IF match # {}
      THEN LET fname == g.added_functions_[Min(match)].codegen_name
           IN  [g EXCEPT !.ret = fname,
                         !.given_names = @ \cup {<<f, fname>>}]
      ELSE LET g1 == shorthand(g, "f" \o str(Len(g.added_functions_)), TRUE)
               fname == g1.ret
               g2 == codegen_declarations(g1, f)
               g3 == [g2 EXCEPT !.added_functions_ =
                        Append(@, [f |-> f, codegen_name |-> fname])]
               g4 == flush(codegen(g3, f, fname))
           IN  [g4 EXCEPT !.ret = fname,
                          !.given_names = @ \cup {<<f, fname>>}]

\* add_dependency(const Function& f)
add_dependency(g, f) ==
  LET match == FindFunction(g, f)
  IN  IF match # {}
      THEN LET fname == g.added_functions_[Min(match)].codegen_name
           IN  [g EXCEPT !.ret = fname,
                         !.given_names = @ \cup {<<f, fname>>}]
      ELSE LET g1 == shorthand(g, "f" \o str(Len(g.added_functions_)), TRUE)
               fname == g1.ret
               g2 == [g1 EXCEPT !.added_functions_ =
                        Append(@, [f |-> f, codegen_name |-> fname])]
               g3 == codegen_declarations(g2, f)
               g4 == codegen(g3, f, fname)
               g5 == IF has_refcount_(f)
                     THEN put(codegen_decref(
                            put(codegen_incref(g4, f),
                                <<"definition", "void " \o fname
                                                \o "_incref(void)">>), f),
                              <<"definition", "void " \o fname
                                              \o "_decref(void)">>)
                     ELSE g4
               g6 == flush(g5)
           IN  [g6 EXCEPT !.ret = fname,
                          !.given_names = @ \cup {<<f, fname>>}]

\* add(const Function& f, bool with_jac_sparsity)
add(g, f, with_jac_sparsity) ==
  LET g1 == add_dependency(g, f)
      codegen_name == g1.ret
      g2 == declare(g1, signature(name(f)))
      g3 == put(g2, <<"definition", g2.ret, "return " \o codegen_name>>)
      g4 == codegen_meta(g3, f)
      g5 == IF with_jac_sparsity
            THEN flush(add_io_sparsities(g4, "jac_" \o name(f),
                                         sparsity_in_(f),
                                         <<get_jacobian_sparsity(f)>>))
            ELSE g4
  IN  [g5 EXCEPT !.exposed_fname = Append(@, name(f))]

AddDependency ==
  /\ Usable /\ steps < MaxAdds
  /\ \E f \in Functions : Commit(add_dependency(G, f))

Add ==
  /\ Usable /\ steps < MaxAdds
  /\ \E f \in Functions, with_jac_sparsity \in BOOLEAN :
       Commit(add(G, f, with_jac_sparsity))

AddIoSparsities ==
  /\ Usable /\ steps < MaxAdds
  /\ \E f \in Functions :
       Commit(add_io_sparsities(G, name(f), sparsity_in_(f), <<>>))

Flush ==
  /\ Usable
  /\ Commit(flush(G))

---------------------------------------------------------------------------
(* The auxiliary resolver: add_auxiliary and sanitize_source.  A template  *)
(* is a sequence of lines and a line a sequence of tokens; a replacement   *)
(* acts on whole tokens.  The auxiliary section holds one record per       *)
(* expansion: the kind, the instantiation of the request (inst), the one   *)
(* handed to sanitize_source (inst2), the conditional that wraps the text, *)
(* and the text.                                                           *)

\* most state-changing add_auxiliary calls in a run
MaxRequests == 2

\* the kinds with prerequisites and their prerequisites (AUX_FILL, AUX_FLIP
\* and AUX_LOW stand for the kinds that only expand their template)
Kinds == {"AUX_FILL", "AUX_FLIP", "AUX_LOW", "AUX_DE_BOOR",
          "AUX_INTERPN_WEIGHTS", "AUX_INTERPN_INTERPOLATE", "AUX_INTERPN",
          "AUX_INTERPN_GRAD", "AUX_ND_BOOR_EVAL", "AUX_DENSIFY",
          "AUX_FROM_MEX"}

Insts == {<<>>, <<"casadi_real">>, <<"int">>, <<"int", "int">>}

\* the default of add_auxiliary's second parameter
default_inst == <<"casadi_real">>

\* the name after "// SYMBOL" in the template of a kind
Symbol(f) ==
  CASE f = "AUX_FILL" -> "fill"
    [] f = "AUX_FLIP" -> "flip"
    [] f = "AUX_LOW" -> "low"
    [] f = "AUX_DE_BOOR" -> "de_boor"
    [] f = "AUX_INTERPN_WEIGHTS" -> "interpn_weights"
    [] f = "AUX_INTERPN_INTERPOLATE" -> "interpn_interpolate"
    [] f = "AUX_INTERPN" -> "interpn"
    [] f = "AUX_INTERPN_GRAD" -> "interpn_grad"
    [] f = "AUX_ND_BOOR_EVAL" -> "nd_boor_eval"
    [] f = "AUX_DENSIFY" -> "densify"
    [] f = "AUX_FROM_MEX" -> "from_mex"

\* casadi_<kind>_str: the symbol directive, the generic declaration, a
\* literal substitution and the routine, whose head names the symbol and
\* the type parameters (two for densify)
Template(f) ==
  << <<"// SYMBOL", Symbol(f)>>,
     <<"template", "<typename T1>">>,
     <<"// C-REPLACE", "std::min", "fmin">>,
     IF f = "AUX_DENSIFY"
     THEN <<"void", "casadi_", Symbol(f), "(", "T1", "T2", ")", "{">>
     ELSE <<"void", "casadi_", Symbol(f), "(", "T1", ")", "{">>,
     <<"std::min">>,
     <<"}">> >>

\* the suffix: empty when every type is "casadi_real", else "_" + type for
\* every type of the list
RECURSIVE joined_types(_)
joined_types(inst) ==
  IF inst = <<>> THEN "" ELSE "_" \o Head(inst) \o joined_types(Tail(inst))

\* a suffix for every list, "_" + type for every type
suffix_of_any(inst) == joined_types(inst)

suffix_of(inst) ==
  IF \A i \in 1..Len(inst) : inst[i] = "casadi_real" THEN ""
  ELSE joined_types(inst)

\* the replacement loop: every recorded pair, last recorded first
RECURSIVE replace_all(_, _)
replace_all(line, rep) ==
  IF rep = <<>> THEN line
  ELSE LET it == rep[Len(rep)]
       IN  replace_all([n \in 1..Len(line) |->
                          IF line[n] = it[1] THEN it[2] ELSE line[n]],
                       SubSeq(rep, 1, Len(rep) - 1))

\* the loop of sanitize_source over the lines of the template
RECURSIVE sanitize_lines(_, _, _, _, _)
sanitize_lines(g, lines, suffix, rep, out) ==
  IF lines = <<>> THEN [g EXCEPT !.ret = out]
  ELSE LET line == Head(lines)
           rest == Tail(lines)
       IN  IF line[1] \in {"template", "#define", "#undef", "inline"}
           THEN sanitize_lines(g, rest, suffix, rep, out)
           ELSE IF line[1] = "// SYMBOL"
           THEN sanitize_lines(
                  shorthand(g, line[2] \o suffix, TRUE), rest, suffix,
                  IF suffix # ""
                  THEN Append(rep, <<line[2], line[2] \o suffix>>) ELSE rep,
                  out)
           ELSE IF line[1] = "// C-REPLACE"
           THEN sanitize_lines(g, rest, suffix,
                               Append(rep, <<line[2], line[3]>>), out)
           ELSE sanitize_lines(g, rest, suffix, rep,
                               Append(out, replace_all(line, rep)))

\* sanitize_source(src, inst, add_shorthand = true)
sanitize_source(g, src, inst) ==
  sanitize_lines(g, src, suffix_of(inst),
                 [i \in 1..Len(inst) |-> <<"T" \o str(i), inst[i]>>], <<>>)

\* the calls of the cases with a call from AUX_LOW back to AUX_INTERPN
prerequisites_cyclic(f) ==
  CASE f = "AUX_INTERPN" ->
         << <<"AUX_INTERPN_WEIGHTS", default_inst>>,
            <<"AUX_FILL", default_inst>> >>
    [] f = "AUX_INTERPN_WEIGHTS" -> << <<"AUX_LOW", default_inst>> >>
    [] f = "AUX_LOW" -> << <<"AUX_INTERPN", default_inst>> >>
    [] OTHER -> <<>>

\* the add_auxiliary calls at the head of a kind's case, in call order
prerequisites(f) ==
  CASE f = "AUX_INTERPN" ->
         << <<"AUX_INTERPN_WEIGHTS", default_inst>>,
            <<"AUX_INTERPN_INTERPOLATE", default_inst>>,
            <<"AUX_FLIP", <<>> >>,
            <<"AUX_FILL", default_inst>>,
            <<"AUX_FILL", <<"int">> >> >>
    [] f = "AUX_INTERPN_GRAD" -> << <<"AUX_INTERPN", default_inst>> >>
    [] f = "AUX_ND_BOOR_EVAL" ->
         << <<"AUX_DE_BOOR", default_inst>>,
            <<"AUX_FILL", default_inst>>,
            <<"AUX_FILL", <<"int">> >>,
            <<"AUX_LOW", default_inst>> >>
    [] f = "AUX_INTERPN_WEIGHTS" -> << <<"AUX_LOW", default_inst>> >>
    [] f = "AUX_DENSIFY" -> << <<"AUX_FILL", default_inst>> >>
    [] f = "AUX_FROM_MEX" -> << <<"AUX_FILL", default_inst>> >>
    [] OTHER -> <<>>

\* the requested instantiation handed on as it is
specialization_same(f, inst) == inst

\* the instantiation the case hands to sanitize_source
specialization(f, inst) ==
  IF f = "AUX_DENSIFY" /\ Len(inst) = 1 THEN Append(inst, inst[1]) ELSE inst

\* the conditional the case wraps around the expansion
conditional(f) ==
  IF f = "AUX_FROM_MEX" THEN "MATLAB_MEX_FILE" ELSE ""

\* a scan that never finds the pair
is_added_never(g, f, inst) == FALSE

\* the scan of added_auxiliaries_.equal_range(f) for inst
is_added(g, f, inst) == <<f, inst>> \in g.added_auxiliaries_

RECURSIVE add_auxiliary(_, _, _)

RECURSIVE add_auxiliaries(_, _)
add_auxiliaries(g, requests) ==
  IF requests = <<>> THEN g
  ELSE add_auxiliaries(
         add_auxiliary(g, Head(requests)[1], Head(requests)[2]),
         Tail(requests))

\* add_auxiliary without the requests for the prerequisites
add_auxiliary_alone(g, f, inst) ==
  IF <<f, inst>> \in g.added_auxiliaries_ THEN g
  ELSE LET g1 == [g EXCEPT !.added_auxiliaries_ = @ \cup {<<f, inst>>}]
           inst2 == specialization(f, inst)
           g2 == sanitize_source(g1, Template(f), inst2)
       IN  [g2 EXCEPT !.auxiliaries =
              Append(@, [kind |-> f, inst |-> inst, inst2 |-> inst2,
                         conditional |-> conditional(f),
                         text |-> g2.ret])]

\* add_auxiliary with the prerequisites requested after the expansion
add_auxiliary_late(g, f, inst) ==
  IF <<f, inst>> \in g.added_auxiliaries_ THEN g
  ELSE LET g1 == [g EXCEPT !.added_auxiliaries_ = @ \cup {<<f, inst>>}]
           inst2 == specialization(f, inst)
           g2 == sanitize_source(g1, Template(f), inst2)
           g3 == [g2 EXCEPT !.auxiliaries =
                    Append(@, [kind |-> f, inst |-> inst, inst2 |-> inst2,
                               conditional |-> conditional(f),
                               text |-> g2.ret])]
       IN  add_auxiliaries(g3, prerequisites(f))

\* add_auxiliary(Auxiliary f, const vector<string>& inst)
add_auxiliary(g, f, inst) ==
  IF is_added(g, f, inst) THEN g
  ELSE LET g1 == [g EXCEPT !.added_auxiliaries_ = @ \cup {<<f, inst>>}]
           g2 == add_auxiliaries(g1, prerequisites(f))
           inst2 == specialization(f, inst)
           g3 == sanitize_source(g2, Template(f), inst2)
       IN  [g3 EXCEPT !.auxiliaries =
              Append(@, [kind |-> f, inst |-> inst, inst2 |-> inst2,
                         conditional |-> conditional(f), text |-> g3.ret])]

\* the recursion of add_auxiliary(f, inst) on the record of pairs alone:
\* the record the call leaves and the depth it reaches, one for the call
\* itself and the deepest of its nested calls, each made with the record
\* the calls before it left
RECURSIVE call_depth(_, _, _)

RECURSIVE nested_depth(_, _, _)
nested_depth(added, requests, deepest) ==
  IF requests = <<>> THEN [added |-> added, depth |-> deepest]
  ELSE LET r == call_depth(added, Head(requests)[1], Head(requests)[2])
       IN  nested_depth(r.added, Tail(requests),
                        IF r.depth > deepest THEN r.depth ELSE deepest)

call_depth(added, f, inst) ==
  IF <<f, inst>> \in added THEN [added |-> added, depth |-> 1]
  ELSE LET r == nested_depth(added \cup {<<f, inst>>}, prerequisites(f), 0)
       IN  [added |-> r.added, depth |-> r.depth + 1]

AddAuxiliaryCall(f, inst) == Commit(add_auxiliary(G, f, inst))

AddAuxiliary ==
  /\ Usable
  /\ \E f \in Kinds, inst \in Insts :
       /\ steps < MaxRequests \/ is_added(G, f, inst)
       /\ AddAuxiliaryCall(f, inst)

---------------------------------------------------------------------------
(* The dispatchers: the lines generate_mex and generate_main print.        *)

\* the list " 'a' 'b' ..." of the error messages
RECURSIVE quoted_names(_)
quoted_names(names) ==
  IF names = <<>> THEN ""
  ELSE " '" \o Head(names) \o "'" \o quoted_names(Tail(names))

\* the loops over exposed_fname that print one branch per entry: the
\* comparison of the subject with the name, and the forwarding call
RECURSIVE branches(_, _, _)
branches(names, subject, bridge) ==
  IF names = <<>> THEN <<>>
  ELSE << <<"branch", subject, Head(names)>>,
          <<"forward", bridge \o Head(names)>> >>
       \o branches(Tail(names), subject, bridge)

\* generate_mex(std::ostream& s)
generate_mex(g) ==
  LET buf_len == MaxOf({0} \cup {Len(n) : n \in Range(g.exposed_fname)})
  IN  << <<"line", "#ifdef MATLAB_MEX_FILE">>,
         <<"line", "void mexFunction(...) {">>,
         <<"line", "char buf[" \o str(buf_len + 1) \o "];">>,
         <<"line", "int buf_ok = ...;">>,
         <<"line", "if (!buf_ok) {">> >>
      \o branches(g.exposed_fname, "buf", "mex_")
      \o << <<"line", "}">>,
            <<"error", "mexErrMsgTxt", quoted_names(g.exposed_fname)>>,
            <<"line", "}">>,
            <<"line", "#endif">> >>

\* generate_main(std::ostream& s)
generate_main(g) ==
  << <<"line", "int main(int argc, char* argv[]) {">>,
     <<"line", "if (argc<2) {">> >>
  \o branches(g.exposed_fname, "argv[1]", "main_")
  \o << <<"line", "}">>,
        <<"error", "fprintf(stderr", quoted_names(g.exposed_fname)>>,
        <<"line", "return 1;">>,
        <<"line", "}">> >>

---------------------------------------------------------------------------
(* The names of pooled constants and the arrays dump prints for them.      *)

\* most state-changing calls in a run of the naming model
MaxNames == 3

\* the payloads and the shorthand names the naming model calls with
IntNamed == {v \in IntPayloads : Len(v) <= 1}
DoubleNamed == {v \in DoublePayloads : Len(v) <= 1}
ShortNames == {"s0", "c0", "x"}

\* constant(const std::vector<double>& v) with "s" in the place of "c"
constant_double_as_s(g, v) ==
  LET g1 == get_constant_double(g, v, TRUE)
  IN  shorthand(g1, "s" \o str(g1.ret), TRUE)

\* constant(const std::vector<double>& v)
constant_double(g, v) ==
  LET g1 == get_constant_double(g, v, TRUE)
  IN  shorthand(g1, "c" \o str(g1.ret), TRUE)

\* constant(const std::vector<int>& v)
constant_int(g, v) ==
  LET g1 == get_constant_int(g, v, TRUE)
  IN  shorthand(g1, "s" \o str(g1.ret), TRUE)

\* get_sparsity(sp)
get_sparsity(g, sp) == get_constant_int(g, sp, FALSE)

\* constant(double v) for a finite v: the values of DoubleVals are whole
\* numbers, so int v_int(v) equals v and the text is v_int and a point
constant_scalar(d) ==
  LET v_int == DoubleValue(d)
  IN  str(v_int) \o "."

\* initializer(v): the texts of the elements, in order
initializer_double(v) == [i \in 1..Len(v) |-> constant_scalar(v[i])]

initializer_int(v) == [i \in 1..Len(v) |-> str(v[i])]

\* array(type, name, len, def): a null pointer when len is 0, else an
\* array of len elements with the initializer def
array(type, array_name, len, def) ==
  IF len = 0 THEN <<"pointer", type, array_name, "0", <<>> >>
  ELSE <<"array", type, array_name, str(len), def>>

\* print_vector(s, name, v)
print_vector_int(array_name, v) ==
  array("static const int", array_name, Len(v), initializer_int(v))

print_vector_double(array_name, v) ==
  array("static const casadi_real", array_name, Len(v), initializer_double(v))

\* dump: the integer constants, then the double constants
dump_constants(g) ==
  [i \in 1..Len(g.integer_constants_) |->
     print_vector_int("casadi_s" \o str(i - 1), g.integer_constants_[i])]
  \o
  [i \in 1..Len(g.double_constants_) |->
     print_vector_double("casadi_c" \o str(i - 1), g.double_constants_[i])]

\* the elements of a set<string> in the order the loop visits them (the
\* order itself is not modelled)
RECURSIVE Iterate(_)
Iterate(S) ==
  IF S = {} THEN <<>>
  ELSE LET x == CHOOSE y \in S : TRUE
       IN  <<x>> \o Iterate(S \ {x})

\* dump: the prefix macros, one per element of added_shorthands_
dump_shorthands(g) ==
  LET i == Iterate(g.added_shorthands_)
  IN  [k \in 1..Len(i) |->
         <<"#define", "casadi_" \o i[k], "CASADI_PREFIX(" \o i[k] \o ")">>]

\* the history of the names handed out for payloads
Named(g, pool, v) ==
  IF g.error = "none"
  THEN [g EXCEPT !.named = @ \cup {<<pool, v, g.ret>>}]
  ELSE g

ConstantInt ==
  /\ Usable /\ steps < MaxNames
  /\ \E v \in IntNamed : Commit(Named(constant_int(G, v), "s", v))

ConstantDouble ==
  /\ Usable /\ steps < MaxNames
  /\ \E v \in DoubleNamed : Commit(Named(constant_double(G, v), "c", v))

Sparsity ==
  /\ Usable /\ steps < MaxNames
  /\ \E sp \in IntNamed : Commit(Named(sparsity(G, sp), "s", sp))

AddSparsity ==
  /\ Usable /\ steps < MaxNames
  /\ \E sp \in IntNamed : Commit(add_sparsity(G, sp))

Reserve ==
  /\ Usable /\ steps < MaxNames
  /\ \E short \in ShortNames, allow_adding \in BOOLEAN :
       Commit(shorthand(G, short, allow_adding))

Resolve ==
  /\ Usable /\ steps < MaxNames
  /\ \E short \in ShortNames : Commit(shorthand_const(G, short))

---------------------------------------------------------------------------
(* Includes and external declarations.                                     *)

IncludeTexts == {"math.h", "a.h", "b.h"}
IfdefNames == {"", "MATLAB_MEX_FILE"}
ExternalTexts == {"int f(void);", "int g(void);", "int h(void);"}

\* add_include without the quick return
add_include_again(g, new_include, relative_path, use_ifdef) ==
  [g EXCEPT
     !.added_includes_ = @ \cup {new_include},
     !.includes =
       @ \o (IF use_ifdef # "" THEN << <<"#ifdef", use_ifdef>> >> ELSE <<>>)
         \o << <<"#include",
                 IF relative_path THEN "\"" \o new_include \o "\""
                 ELSE "<" \o new_include \o ">">> >>
         \o (IF use_ifdef # "" THEN << <<"#endif", "">> >> ELSE <<>>)]

\* add_include(new_include, relative_path, use_ifdef)
add_include(g, new_include, relative_path, use_ifdef) ==
  IF new_include \in g.added_includes_ THEN g
  ELSE [g EXCEPT
          !.added_includes_ = @ \cup {new_include},
          !.includes =
            @ \o (IF use_ifdef # "" THEN << <<"#ifdef", use_ifdef>> >>
                  ELSE <<>>)
              \o << <<"#include",
                      IF relative_path THEN "\"" \o new_include \o "\""
                      ELSE "<" \o new_include \o ">">> >>
              \o (IF use_ifdef # "" THEN << <<"#endif", "">> >> ELSE <<>>)]

\* add_external(new_external)
add_external(g, new_external) ==
  [g EXCEPT !.added_externals_ = @ \cup {new_external}]

\* dump: the includes section as it stands
dump_includes(g) == g.includes

\* dump: the external function declarations
dump_externals(g) ==
  IF g.added_externals_ = {} THEN <<>>
  ELSE LET i == Iterate(g.added_externals_)
       IN  << <<"comment", "/* External functions */">> >>
           \o [k \in 1..Len(i) |-> <<"external", i[k]>>]

AddInclude ==
  /\ Usable
  /\ \E new_include \in IncludeTexts, relative_path \in BOOLEAN,
        use_ifdef \in IfdefNames :
       Commit(add_include(G, new_include, relative_path, use_ifdef))

AddExternal ==
  /\ Usable
  /\ \E new_external \in ExternalTexts : Commit(add_external(G, new_external))

---------------------------------------------------------------------------
(* sanitize_source on its own: sources whose lines name a symbol before    *)
(* and after its directive, and instantiation lists of every shape.        *)

\* most state-changing calls in a run of the sanitize model
MaxSanitize == 3

SourceOneSymbol ==
  << <<"x", "low">>,
     <<"// SYMBOL", "low">>,
     <<"template", "<typename T1>">>,
     <<"y", "low", "T1">> >>

SourceTwoSymbols ==
  << <<"// SYMBOL", "low">>,
     <<"a", "low", "fill">>,
     <<"// SYMBOL", "fill">>,
     <<"b", "low", "fill", "T2">> >>

Sources == {SourceOneSymbol, SourceTwoSymbols}

SanitizeInsts ==
  {<<>>, <<"casadi_real">>, <<"casadi_real", "casadi_real">>, <<"int">>,
   <<"casadi_real", "int">>, <<"int", "int">>}

Sanitize ==
  /\ Usable /\ steps < MaxSanitize
  /\ \E src \in Sources, inst \in SanitizeInsts :
       LET g == sanitize_source(G, src, inst)
       IN  Commit([g EXCEPT !.sanitized = @ \cup {<<src, inst, g.ret>>}])

---------------------------------------------------------------------------
(* The custom naming scheme: a list of entry names and the map from a name *)
(* to its index, both fixed by the constructor.                            *)

\* most entries of a scheme
MaxEntries == 3

\* the names a scheme is built from and asked for
EntryNames == {"x", "y", "z"}

\* the indices entry() is asked for: one below and one above every list
EntryIndices == (0 - 1)..MaxEntries

\* entrymap_ after the first k rounds of the constructor's loop:
\* entrymap_[entries[i]] = i, a later round replacing an earlier one
RECURSIVE entrymap_after(_, _)
entrymap_after(entries, k) ==
  IF k = 0 THEN [n \in {} |-> 0]
  ELSE LET m == entrymap_after(entries, k - 1)
       IN  [n \in (DOMAIN m) \cup {entries[k]} |->
              IF n = entries[k] THEN k - 1 ELSE m[n]]

\* IOSchemeCustomInternal(entries)
IOSchemeCustomInternal(entries) ==
  /\ entries_ = entries
  /\ entrymap_ = entrymap_after(entries, Len(entries))
  /\ entry_call = <<>>
  /\ index_call = <<>>

\* size()
size == Len(entries_)

\* entry(i): the name at index i, or the failure of the assertion
entry(i) ==
  IF i >= 0 /\ i < Len(entries_)
  THEN [ret |-> entries_[i + 1], error |-> "none"]
  ELSE [ret |-> "", error |-> "customIO::entry(): requesting entry for index"]

\* index(name): the index the map holds for name, or the failure of the
\* assertion
index(n) ==
  IF n \in DOMAIN entrymap_
  THEN [ret |-> entrymap_[n], error |-> "none"]
  ELSE [ret |-> 0 - 1, error |-> "customIO::index(): entry not available"]

---------------------------------------------------------------------------
(* The state after construction with the default options (with_header is   *)
(* the one option the model varies).                                       *)

CodeGenerator(h) ==
  /\ double_constants_ = <<>>
  /\ added_double_constants_ = {}
  /\ integer_constants_ = <<>>
  /\ added_integer_constants_ = {}
  /\ added_shorthands_ = {}
  /\ added_functions_ = <<>>
  /\ exposed_fname = <<>>
  /\ sparsity_meta = {}
  /\ added_auxiliaries_ = {}
  /\ added_includes_ = {"math.h"}
  /\ added_externals_ = {}
  /\ includes = << <<"#include", "\"math.h\"">> >>
  /\ with_header = h
  /\ buffer = <<>>
  /\ body = <<>>
  /\ header = <<>>
  /\ auxiliaries = <<>>
  /\ newline_ = TRUE
  /\ current_indent_ = 0
  /\ error = "none"
  /\ returned = {}
  /\ given_names = {}
  /\ named = {}
  /\ sanitized = {}
  /\ emitted = <<>>
  /\ calls = [declarations |-> [f \in Functions |-> 0],
              codegen |-> [f \in Functions |-> 0],
              declare |-> {}]
  /\ low_indent = 0
  /\ rendered = FALSE
  /\ steps = 0

\* a generator, and no scheme entries: the schemes label diagnostics only
Constructed(h) == CodeGenerator(h) /\ IOSchemeCustomInternal(<<>>)

InitPool == Constructed(FALSE)

NextPool == GetConstantDouble \/ GetConstantInt

SpecPool == InitPool /\ [][NextPool]_vars

InitAdd == \E h \in BOOLEAN : Constructed(h)

NextAdd == AddDependency \/ Add \/ AddIoSparsities \/ Flush

SpecAdd == InitAdd /\ [][NextAdd]_vars

InitAux == Constructed(FALSE)

NextAux == AddAuxiliary

SpecAux == InitAux /\ [][NextAux]_vars

InitEmit == Constructed(FALSE)

NextEmit == Emit \/ Dump

SpecEmit == InitEmit /\ [][NextEmit]_vars

InitNames == Constructed(FALSE)

NextNames ==
  \/ ConstantInt \/ ConstantDouble \/ Sparsity \/ AddSparsity
  \/ Reserve \/ Resolve

SpecNames == InitNames /\ [][NextNames]_vars

InitInclude == Constructed(FALSE)

NextInclude == AddInclude \/ AddExternal

SpecInclude == InitInclude /\ [][NextInclude]_vars

InitSanitize == Constructed(FALSE)

NextSanitize == Sanitize

SpecSanitize == InitSanitize /\ [][NextSanitize]_vars

\* the generator variables, which the calls on a scheme leave alone
generator_vars ==
  <<double_constants_, added_double_constants_, integer_constants_,
    added_integer_constants_, added_shorthands_, added_functions_,
    exposed_fname, sparsity_meta, added_auxiliaries_, added_includes_,
    added_externals_, includes, with_header,
    buffer, body, header, auxiliaries, newline_, current_indent_,
    error, returned, given_names, named, sanitized, emitted, calls,
    low_indent, rendered, steps>>

\* a call of entry(i)
Entry ==
  \E i \in EntryIndices :
    /\ entry_call' = <<i, entry(i).ret, entry(i).error>>
    /\ UNCHANGED <<entries_, entrymap_, index_call, generator_vars>>

\* a call of index(name)
Index ==
  \E n \in EntryNames :
    /\ index_call' = <<n, index(n).ret, index(n).error>>
    /\ UNCHANGED <<entries_, entrymap_, entry_call, generator_vars>>

InitScheme ==
  /\ CodeGenerator(FALSE)
  /\ \E entries \in SeqsUpTo(EntryNames, MaxEntries) :
       IOSchemeCustomInternal(entries)

NextScheme == Entry \/ Index

SpecScheme == InitScheme /\ [][NextScheme]_vars

---------------------------------------------------------------------------
(* C1, C2: the pools.                                                      *)

PayloadEqual(pool, a, b) ==
  IF pool = "c" THEN equalDouble(a, b) ELSE equalInt(a, b)


\* C1: two find-or-insert calls on one pool return the same id exactly when
\* their payloads are element-wise equal (equal payloads share an id,
\* payloads of differing content get distinct ids), whatever was inserted
\* before or between them.
C1_InternByContent ==
  \A a, b \in returned :
    a[1] = b[1] => (PayloadEqual(a[1], a[2], b[2]) <=> a[3] = b[3])

\* C1, the integer pool alone: the statement holds there, also for
\* payloads whose hashes collide.
C1_IntegerPoolByContent ==
  \A a, b \in returned :
    (a[1] = "s" /\ b[1] = "s") => (equalInt(a[2], b[2]) <=> a[3] = b[3])

\* C2: neither pool holds two element-wise-equal entries.
C2_NoEqualEntries ==
  /\ \A i, j \in 1..Len(double_constants_) :
       i # j => ~equalDouble(double_constants_[i], double_constants_[j])
  /\ \A i, j \in 1..Len(integer_constants_) :
       i # j => ~equalInt(integer_constants_[i], integer_constants_[j])

\* C2, the integer pool alone: no two entries are element-wise equal.
C2_IntegerPoolNoEqualEntries ==
  \A i, j \in 1..Len(integer_constants_) :
    i # j => ~equalInt(integer_constants_[i], integer_constants_[j])

\* two integer payloads of differing content and one hash are both pooled
IntegerCollisionPooled ==
  \E i, j \in 1..Len(integer_constants_) :
    /\ i # j
    /\ hashInt(integer_constants_[i]) = hashInt(integer_constants_[j])

---------------------------------------------------------------------------
(* C8, C9: the indentation depth.                                          *)

\* opening minus closing braces of a text
RECURSIVE BraceBalance(_)
BraceBalance(text) ==
  IF text = <<>> THEN 0
  ELSE BraceBalance(Tail(text))
       + (IF Head(text) = "{" THEN 1 ELSE IF Head(text) = "}" THEN -1 ELSE 0)

\* C8: the indentation depth is >= 0 in every state, the states between
\* the characters of one fragment included.
C8_DepthNonNegative == current_indent_ >= 0 /\ low_indent >= 0

\* C9: a text that closes below zero depth never renders (a failure is
\* reported by dump at the latest); and after a text with balanced braces
\* that never closes below zero the depth is zero.
C9_UnderflowReported ==
  /\ rendered => low_indent >= 0
  /\ (error = "none" /\ low_indent >= 0 /\ BraceBalance(buffer) = 0)
       => current_indent_ = 0

\* C9, the converse alone: while no failure was reported and the text
\* never closed below zero, the depth is the number of open braces, so
\* it is zero after balanced braces.
C9_BalancedReturnsToZero ==
  (error = "none" /\ low_indent >= 0) => current_indent_ = BraceBalance(buffer)

---------------------------------------------------------------------------
(* C3, C7, C10: registration, declarations and dispatchers.                *)

Count(text, line) == Cardinality({i \in 1..Len(text) : text[i] = line})

\* the entries of the registered-function list that hold f
EntriesOf(f) == {i \in 1..Len(added_functions_) : added_functions_[i].f = f}

\* the lines of the body that define f under a registered name
DefinitionsOf(f) ==
  {i \in 1..Len(body) : body[i][1] = "codegen" /\ body[i][3] = name(f)}

\* C3: a function that is registered again gets the name of its first
\* registration, its declaration and body callbacks are not invoked again,
\* the registered-function list gets no further entry, and the body section
\* holds its definition exactly once.
C3_RegisteredOnce ==
  \A f \in Functions :
    EntriesOf(f) # {} =>
      /\ Cardinality(EntriesOf(f)) = 1
      /\ calls.declarations[f] = 1
      /\ calls.codegen[f] = 1
      /\ \A p \in given_names :
           p[1] = f => p[2] = added_functions_[Min(EntriesOf(f))].codegen_name
      /\ Cardinality(DefinitionsOf(f)) = 1
      /\ \A i \in DefinitionsOf(f) :
           body[i][2] = added_functions_[Min(EntriesOf(f))].codegen_name

\* a function was exposed twice, so it was registered while registered,
\* and a function was registered from inside another one's declarations
C3_RegisteredAgain ==
  /\ \E f \in Functions : Count(exposed_fname, name(f)) >= 2
  /\ \E i \in 1..Len(added_functions_) :
       added_functions_[i].f = 1 /\ i > 1

\* C7: with the header enabled, every signature handed to declare is once
\* in the header section and its definition is once in the body section
\* (judged when no emitted text waits in the buffer); with the header
\* disabled the header section stays as it was.
C7_HeaderMatchesBody ==
  /\ (with_header /\ buffer = <<>>) =>
       \A sig \in calls.declare :
         /\ Count(header, <<"declaration", cpp_prefix \o sig \o ";">>) = 1
         /\ Cardinality({i \in 1..Len(body) :
                           /\ body[i][1] = "definition"
                           /\ body[i][2] = cpp_prefix \o dll_export \o sig}) = 1
  /\ ~with_header => header = <<>>

\* C7, what holds: each signature is in the header as often as its
\* definition was emitted, and never when the header is disabled.
C7_HeaderAsOftenAsDefined ==
  /\ with_header =>
       \A sig \in calls.declare :
         Count(header, <<"declaration", cpp_prefix \o sig \o ";">>)
           = Cardinality({i \in 1..Len(body \o buffer) :
                            /\ (body \o buffer)[i][1] = "definition"
                            /\ (body \o buffer)[i][2]
                                 = cpp_prefix \o dll_export \o sig})
  /\ ~with_header => header = <<>>

\* a sequence without its repeated elements, first occurrences kept
RECURSIVE Distinct(_)
Distinct(q) ==
  IF q = <<>> THEN <<>>
  ELSE LET front == Distinct(SubSeq(q, 1, Len(q) - 1))
       IN  IF q[Len(q)] \in Range(front) THEN front
           ELSE Append(front, q[Len(q)])

\* the lines of one kind of a dispatcher
LinesOf(text, kind) == SelectSeq(text, LAMBDA l : l[1] = kind)

\* a dispatcher has, for the names in the given order, one branch each
\* that forwards to the name's bridge, then the message listing them
Dispatches(text, names, subject, bridge) ==
  /\ LinesOf(text, "branch") = [i \in 1..Len(names) |-> <<"branch", subject, names[i]>>]
  /\ LinesOf(text, "forward") = [i \in 1..Len(names) |-> <<"forward", bridge \o names[i]>>]
  /\ Len(LinesOf(text, "error")) = 1
  /\ LinesOf(text, "error")[1][3] = quoted_names(names)
  /\ \A i, j \in 1..Len(text) :
       (text[i][1] = "branch" /\ text[j][1] = "error") => i < j

\* C10: each dispatcher has exactly one branch per exposed function, in
\* registration order, forwarding to that function's bridge, and then an
\* error message that lists every exposed name once in the same order.
C10_OneBranchPerFunction ==
  /\ Dispatches(generate_mex(G), Distinct(exposed_fname), "buf", "mex_")
  /\ Dispatches(generate_main(G), Distinct(exposed_fname), "argv[1]", "main_")

\* C10, what holds: one branch and one message entry per entry of the
\* exposed-name list, in its order, in both dispatchers.
C10_OneBranchPerEntry ==
  /\ Dispatches(generate_mex(G), exposed_fname, "buf", "mex_")
  /\ Dispatches(generate_main(G), exposed_fname, "argv[1]", "main_")

---------------------------------------------------------------------------
(* C4, C5, C6: the auxiliary section.                                      *)

\* the expansions appended for the request (f, inst)
ExpansionsFor(f, inst) ==
  {i \in 1..Len(auxiliaries) :
     auxiliaries[i].kind = f /\ auxiliaries[i].inst = inst}

\* the expansions of the template of f with the types inst2
ExpansionsOf(f, inst2) ==
  {i \in 1..Len(auxiliaries) :
     auxiliaries[i].kind = f /\ auxiliaries[i].inst2 = inst2}

\* the instantiation lists requested so far, with the ones of the inputs
AllInsts == Insts \cup {e[2] : e \in added_auxiliaries_}

\* no pair has two expansions, and only recorded pairs have one
C4_AtMostOnce ==
  \A f \in Kinds, inst \in AllInsts :
    /\ Cardinality(ExpansionsFor(f, inst)) <= 1
    /\ ExpansionsFor(f, inst) # {} => <<f, inst>> \in added_auxiliaries_

\* a call with a recorded pair leaves the three collections as they were
C4_RecordedIsNoOp ==
  \A f \in Kinds, inst \in Insts :
    (<<f, inst>> \in added_auxiliaries_ /\ AddAuxiliaryCall(f, inst))
      => UNCHANGED <<auxiliaries, added_auxiliaries_, added_shorthands_>>

\* C4: every (kind, instantiation) pair has at most one expansion in the
\* auxiliary section, the requests made for prerequisites included, and a
\* call with a recorded pair changes neither the auxiliary section nor the
\* record of pairs nor the shorthands.
C4_EmittedOncePerPair == []C4_AtMostOnce /\ [][C4_RecordedIsNoOp]_vars

\* two kinds that both request fill and fill<int> were requested
C4_RequestedTwice ==
  /\ <<"AUX_INTERPN", default_inst>> \in added_auxiliaries_
  /\ <<"AUX_ND_BOOR_EVAL", default_inst>> \in added_auxiliaries_
  /\ Cardinality(ExpansionsFor("AUX_FILL", <<"int">>)) = 1

\* C5: for every expansion of a kind with prerequisites, the expansion of
\* each prerequisite, with the instantiation the resolver requests for it,
\* is in the auxiliary section exactly once, before that expansion.
C5_PrerequisitesOnceBefore ==
  \A j \in 1..Len(auxiliaries) :
    LET need == CASE auxiliaries[j].kind = "AUX_INTERPN" ->
                       { <<"AUX_INTERPN_WEIGHTS", <<"casadi_real">> >>,
                         <<"AUX_INTERPN_INTERPOLATE", <<"casadi_real">> >>,
                         <<"AUX_FLIP", <<>> >>,
                         <<"AUX_FILL", <<"casadi_real">> >>,
                         <<"AUX_FILL", <<"int">> >> }
                  [] auxiliaries[j].kind = "AUX_INTERPN_GRAD" ->
                       { <<"AUX_INTERPN", <<"casadi_real">> >> }
                  [] auxiliaries[j].kind = "AUX_ND_BOOR_EVAL" ->
                       { <<"AUX_DE_BOOR", <<"casadi_real">> >>,
                         <<"AUX_FILL", <<"casadi_real">> >>,
                         <<"AUX_FILL", <<"int">> >>,
                         <<"AUX_LOW", <<"casadi_real">> >> }
                  [] auxiliaries[j].kind = "AUX_INTERPN_WEIGHTS" ->
                       { <<"AUX_LOW", <<"casadi_real">> >> }
                  [] auxiliaries[j].kind \in {"AUX_DENSIFY", "AUX_FROM_MEX"} ->
                       { <<"AUX_FILL", <<"casadi_real">> >> }
                  [] OTHER -> {}
    IN  \A p \in need :
          /\ Cardinality(ExpansionsOf(p[1], p[2])) = 1
          /\ \A i \in ExpansionsOf(p[1], p[2]) : i < j

\* the gradient kind was requested after fill, one of the prerequisites
\* of its prerequisite, had been expanded by an earlier request
C5_PrerequisiteRequestedEarlier ==
  /\ Len(auxiliaries) >= 2
  /\ auxiliaries[1].kind = "AUX_FILL"
  /\ auxiliaries[1].inst = default_inst
  /\ \E j \in 1..Len(auxiliaries) : auxiliaries[j].kind = "AUX_INTERPN_GRAD"

\* the routine an expansion defines: "casadi_" and the symbol with its suffix
RoutineName(e) == e.text[1][2] \o e.text[1][3]

\* C6: no two expansions in the auxiliary section come from one template
\* with one effective instantiation, and no two define one routine name.
C6_EveryRoutineOnce ==
  \A i, j \in 1..Len(auxiliaries) :
    i # j =>
      /\ ~(/\ auxiliaries[i].kind = auxiliaries[j].kind
           /\ auxiliaries[i].inst2 = auxiliaries[j].inst2)
      /\ RoutineName(auxiliaries[i]) # RoutineName(auxiliaries[j])

---------------------------------------------------------------------------
(* C11: the arrays of the pooled constants.                                *)

\* the positions of the printed arrays with a given name
ArraysNamed(out, array_name) == {i \in 1..Len(out) : out[i][3] = array_name}

\* the number a printed element stands for
ParsedInt(text) == CHOOSE n \in 0..9 : str(n) = text

ParsedDouble(text) == CHOOSE n \in 0..9 : str(n) \o "." = text

\* a printed array is of the pool's type and its elements equal the payload
HoldsPayload(line, pool, v) ==
  /\ line[2] = (IF pool = "s" THEN "static const int"
                ELSE "static const casadi_real")
  /\ Len(line[5]) = Len(v)
  /\ line[1] = (IF Len(v) = 0 THEN "pointer" ELSE "array")
  /\ line[1] = "array" => line[4] = str(Len(v))
  /\ \A j \in 1..Len(v) :
       IF pool = "s" THEN ParsedInt(line[5][j]) = IntValue(v[j])
       ELSE ParsedDouble(line[5][j]) = DoubleValue(v[j])

\* C11: the output holds exactly one array per pool entry and no other,
\* entry i of the integer pool is casadi_s<i> and entry i of the double
\* pool is casadi_c<i>, each holding its entry's payload, and every name
\* that constant or sparsity returned for a payload names the one array
\* that holds that payload.
C11_OneArrayPerEntry ==
  LET out == dump_constants(G)
  IN  /\ Len(out) = Len(integer_constants_) + Len(double_constants_)
      /\ \A i \in 1..Len(integer_constants_) :
           /\ Cardinality(ArraysNamed(out, "casadi_s" \o str(i - 1))) = 1
           /\ \A k \in ArraysNamed(out, "casadi_s" \o str(i - 1)) :
                HoldsPayload(out[k], "s", integer_constants_[i])
      /\ \A i \in 1..Len(double_constants_) :
           /\ Cardinality(ArraysNamed(out, "casadi_c" \o str(i - 1))) = 1
           /\ \A k \in ArraysNamed(out, "casadi_c" \o str(i - 1)) :
                HoldsPayload(out[k], "c", double_constants_[i])
      /\ \A e \in named :
           /\ Cardinality(ArraysNamed(out, e[3])) = 1
           /\ \A k \in ArraysNamed(out, e[3]) : HoldsPayload(out[k], e[1], e[2])

\* both pools hold entries, names were handed out, and an entry of the
\* integer pool was pooled by add_sparsity alone
C11_NamedAndPooled ==
  /\ Len(integer_constants_) >= 2
  /\ Len(double_constants_) >= 1
  /\ named # {}
  /\ \E i \in 1..Len(integer_constants_) :
       \A e \in named : e[3] # "casadi_s" \o str(i - 1)

---------------------------------------------------------------------------
(* C12: the read-only lookup.                                              *)

\* the pools and their hash indexes are in g as they are now
PoolsUnchanged(g) ==
  /\ g.double_constants_ = double_constants_
  /\ g.added_double_constants_ = added_double_constants_
  /\ g.integer_constants_ = integer_constants_
  /\ g.added_integer_constants_ = added_integer_constants_

\* the read-only lookup of v gave g: it failed exactly when no entry
\* equals v, it changed no pool, and it found the id of find-or-insert
ReadOnlyAsSpecified(g, inserting, exists) ==
  /\ g.error = (IF exists THEN "none" ELSE "Constant not found")
  /\ PoolsUnchanged(g)
  /\ exists => g.ret = inserting.ret

\* C12: a lookup with allow_adding = false, and get_sparsity, fails with
\* "Constant not found" exactly when the pool holds no element-wise-equal
\* entry, never inserts and leaves the pools and hash indexes unchanged,
\* and otherwise returns the id find-or-insert returns for the payload.
C12_ReadOnlyLookup ==
  Usable =>
    /\ \A v \in DoublePayloads :
         ReadOnlyAsSpecified(
           get_constant_double(G, v, FALSE), get_constant_double(G, v, TRUE),
           \E i \in 1..Len(double_constants_) :
             equalDouble(double_constants_[i], v))
    /\ \A v \in IntPayloads :
         /\ ReadOnlyAsSpecified(
              get_constant_int(G, v, FALSE), get_constant_int(G, v, TRUE),
              \E i \in 1..Len(integer_constants_) :
                equalInt(integer_constants_[i], v))
         /\ ReadOnlyAsSpecified(
              get_sparsity(G, v), add_sparsity(G, v),
              \E i \in 1..Len(integer_constants_) :
                equalInt(integer_constants_[i], v))

\* C12, the integer pool alone: the statement holds for get_constant on
\* integer vectors and for get_sparsity.
C12_IntegerPoolReadOnly ==
  Usable =>
    \A v \in IntPayloads :
      /\ ReadOnlyAsSpecified(
           get_constant_int(G, v, FALSE), get_constant_int(G, v, TRUE),
           \E i \in 1..Len(integer_constants_) :
             equalInt(integer_constants_[i], v))
      /\ ReadOnlyAsSpecified(
           get_sparsity(G, v), add_sparsity(G, v),
           \E i \in 1..Len(integer_constants_) :
             equalInt(integer_constants_[i], v))

---------------------------------------------------------------------------
(* C13: reserving and resolving shorthands.                                *)

\* C13: reserving a name with allow_adding = false fails with the duplicate
\* error exactly when the name is reserved, the read-only resolve fails
\* exactly when it is not, a reserve and the resolve that follows it return
\* the same prefixed name, and a failing call leaves the reserved names as
\* they were.
C13_ReserveAndResolve ==
  Usable =>
    \A short \in ShortNames \cup added_shorthands_ :
      LET reserved == short \in added_shorthands_
          once == shorthand(G, short, FALSE)
          again == shorthand(G, short, TRUE)
          resolved == shorthand_const(G, short)
      IN  /\ once.error = (IF reserved THEN "Duplicate macro: " \o short
                           ELSE "none")
          /\ resolved.error = (IF reserved THEN "none"
                               ELSE "No such macro: " \o short)
          /\ again.error = "none" /\ again.ret = "casadi_" \o short
          /\ again.added_shorthands_ = added_shorthands_ \cup {short}
          /\ ~reserved =>
               /\ once.ret = "casadi_" \o short
               /\ once.added_shorthands_ = added_shorthands_ \cup {short}
               /\ shorthand_const(once, short).error = "none"
               /\ shorthand_const(once, short).ret = once.ret
               /\ resolved.added_shorthands_ = added_shorthands_
          /\ reserved =>
               /\ resolved.ret = "casadi_" \o short
               /\ resolved.added_shorthands_ = added_shorthands_
               /\ once.added_shorthands_ = added_shorthands_

\* a write-once reserve failed on a name that a pooled constant reserved
C13_DuplicateReported ==
  /\ error = "Duplicate macro: s0"
  /\ "s0" \in added_shorthands_
  /\ integer_constants_ # <<>>

---------------------------------------------------------------------------
(* C14: the prefix macros.                                                 *)

\* the output has exactly one macro for the name, and it maps the name
\* through CASADI_PREFIX
PrefixedOnce(macros, internal) ==
  /\ Cardinality({k \in 1..Len(macros) : macros[k][2] = internal}) = 1
  /\ \A k \in 1..Len(macros) :
       macros[k][2] = internal =>
         \E base \in added_shorthands_ :
           /\ internal = "casadi_" \o base
           /\ macros[k][3] = "CASADI_PREFIX(" \o base \o ")"

\* C14: for every name of a registered function, every array the constant
\* dump prints and every routine of the auxiliary section, the output has
\* exactly one prefix macro that maps the name through CASADI_PREFIX,
\* also for pool entries made by add_sparsity or get_constant alone.
C14_EveryNamePrefixed ==
  LET macros == dump_shorthands(G)
      arrays == dump_constants(G)
  IN  /\ \A k \in 1..Len(added_functions_) :
           PrefixedOnce(macros, added_functions_[k].codegen_name)
      /\ \A k \in 1..Len(arrays) : PrefixedOnce(macros, arrays[k][3])
      /\ \A k \in 1..Len(auxiliaries) :
           PrefixedOnce(macros, RoutineName(auxiliaries[k]))

\* C14, what holds: every name that constant, sparsity or add_dependency
\* handed out has exactly one prefix macro.
C14_HandedOutNamesPrefixed ==
  LET macros == dump_shorthands(G)
  IN  /\ \A e \in named : PrefixedOnce(macros, e[3])
      /\ \A k \in 1..Len(added_functions_) :
           PrefixedOnce(macros, added_functions_[k].codegen_name)

---------------------------------------------------------------------------
(* C15: includes and external declarations.                                *)

\* the include lines of the output that name a text, in either form
IncludesOf(text) ==
  {k \in 1..Len(dump_includes(G)) :
     /\ dump_includes(G)[k][1] = "#include"
     /\ dump_includes(G)[k][2] \in {"\"" \o text \o "\"", "<" \o text \o ">"}}

\* C15: a request for an include text or an external declaration that was
\* requested before changes nothing, in whatever form it is repeated, and
\* the output has every requested include text and every requested
\* external declaration exactly once, and no other.
C15_RequestsIdempotent ==
  /\ \A text \in added_includes_, relative_path \in BOOLEAN,
        use_ifdef \in IfdefNames :
       Members(add_include(G, text, relative_path, use_ifdef)) = G
  /\ \A text \in added_externals_ : Members(add_external(G, text)) = G
  /\ \A text \in IncludeTexts :
       Cardinality(IncludesOf(text))
         = (IF text \in added_includes_ THEN 1 ELSE 0)
  /\ \A text \in ExternalTexts :
       Cardinality({k \in 1..Len(dump_externals(G)) :
                      dump_externals(G)[k] = <<"external", text>>})
         = (IF text \in added_externals_ THEN 1 ELSE 0)
  /\ Cardinality({k \in 1..Len(dump_includes(G)) :
                    dump_includes(G)[k][1] = "#include"})
       = Cardinality(added_includes_)

\* every include text and two external declarations were requested, one
\* include under a conditional
C15_AllRequested ==
  /\ added_includes_ = IncludeTexts
  /\ Cardinality(added_externals_) >= 2
  /\ \E k \in 1..Len(includes) : includes[k][1] = "#ifdef"

---------------------------------------------------------------------------
(* C16: densify with one type.                                             *)

---------------------------------------------------------------------------
(* C17: the record of pairs is closed under prerequisites.                 *)

\* the pairs a kind requires, as the catalogue states them
Requires(f) ==
  CASE f = "AUX_INTERPN" ->
         { <<"AUX_INTERPN_WEIGHTS", <<"casadi_real">> >>,
           <<"AUX_INTERPN_INTERPOLATE", <<"casadi_real">> >>,
           <<"AUX_FLIP", <<>> >>,
           <<"AUX_FILL", <<"casadi_real">> >>,
           <<"AUX_FILL", <<"int">> >> }
    [] f = "AUX_INTERPN_GRAD" -> { <<"AUX_INTERPN", <<"casadi_real">> >> }
    [] f = "AUX_ND_BOOR_EVAL" ->
         { <<"AUX_DE_BOOR", <<"casadi_real">> >>,
           <<"AUX_FILL", <<"casadi_real">> >>,
           <<"AUX_FILL", <<"int">> >>,
           <<"AUX_LOW", <<"casadi_real">> >> }
    [] f = "AUX_INTERPN_WEIGHTS" -> { <<"AUX_LOW", <<"casadi_real">> >> }
    [] f \in {"AUX_DENSIFY", "AUX_FROM_MEX"} ->
         { <<"AUX_FILL", <<"casadi_real">> >> }
    [] OTHER -> {}

\* the pairs reached from a set of pairs in at most n steps of Requires
RECURSIVE RequiredWithin(_, _)
RequiredWithin(pairs, n) ==
  IF n = 0 THEN pairs
  ELSE RequiredWithin(pairs \cup UNION {Requires(p[1]) : p \in pairs}, n - 1)

\* C17: between top-level add_auxiliary calls, every recorded pair has its
\* expansion in the auxiliary section, and so has every pair it requires,
\* directly or through other prerequisites.
C17_ClosedUnderPrerequisites ==
  \A e \in added_auxiliaries_ :
    \A p \in RequiredWithin({e}, Cardinality(Kinds)) :
      /\ p \in added_auxiliaries_
      /\ ExpansionsFor(p[1], p[2]) # {}

\* the interpolation gradient is recorded, and with it the seven pairs it
\* reaches through its prerequisites
C17_GradientRecorded ==
  /\ <<"AUX_INTERPN_GRAD", <<"int">> >> \in added_auxiliaries_
  /\ Cardinality(RequiredWithin({<<"AUX_INTERPN_GRAD", <<"int">> >>},
                                Cardinality(Kinds))) = 8
  /\ <<"AUX_LOW", <<"casadi_real">> >> \in added_auxiliaries_

---------------------------------------------------------------------------
(* C18: the recursion of add_auxiliary ends.                               *)

\* the kinds reached from a set of kinds in at most n steps of the calls
\* the cases make
RECURSIVE ReachedWithin(_, _)
ReachedWithin(kinds, n) ==
  IF n = 0 THEN kinds
  ELSE ReachedWithin(
         kinds \cup UNION {{p[1] : p \in Range(prerequisites(k))} : k \in kinds},
         n - 1)

\* the kinds a kind reaches through one or more calls
Reaches(f) ==
  ReachedWithin({p[1] : p \in Range(prerequisites(f))}, Cardinality(Kinds))

\* C18: no kind reaches itself through the calls the cases make, and from
\* every reachable state every add_auxiliary call returns after a
\* recursion no deeper than the number of kinds, with the record of pairs
\* that the call itself leaves.
C18_RecursionBounded ==
  /\ \A f \in Kinds : f \notin Reaches(f) /\ Reaches(f) \subseteq Kinds
  /\ \A f \in Kinds, inst \in Insts :
       call_depth(added_auxiliaries_, f, inst).depth <= Cardinality(Kinds)
  /\ \A e \in added_auxiliaries_ :
       call_depth({}, e[1], e[2]).added \subseteq added_auxiliaries_

\* the gradient was requested first: its request ran four calls deep and
\* left eight expansions
C18_DeepestRequest ==
  /\ steps = 1
  /\ Len(auxiliaries) = 8
  /\ auxiliaries[1].kind = "AUX_LOW"
  /\ auxiliaries[8].kind = "AUX_INTERPN_GRAD"
  /\ call_depth({}, "AUX_INTERPN_GRAD", auxiliaries[8].inst).depth = 4

---------------------------------------------------------------------------
(* C19: the type suffix and the renames of sanitize_source.                *)

\* "_" + type for every type of a list
RECURSIVE Underscored(_)
Underscored(inst) ==
  IF inst = <<>> THEN ""
  ELSE "_" \o Head(inst) \o Underscored(Tail(inst))

\* the suffix as stated: empty exactly when every type is casadi_real
StatedSuffix(inst) ==
  IF {inst[i] : i \in 1..Len(inst)} \subseteq {"casadi_real"} THEN ""
  ELSE Underscored(inst)

\* the type a parameter name stands for, or the name itself when the list
\* has no such position
Bound(inst, k) == IF k <= Len(inst) THEN inst[k] ELSE "T" \o str(k)

\* the text stated for a source: the symbol is suffixed on the lines after
\* its directive only
StatedText(src, inst) ==
  LET sfx == StatedSuffix(inst)
  IN  IF src = SourceOneSymbol
      THEN << <<"x", "low">>, <<"y", "low" \o sfx, Bound(inst, 1)>> >>
      ELSE << <<"a", "low" \o sfx, "fill">>,
              <<"b", "low" \o sfx, "fill" \o sfx, Bound(inst, 2)>> >>

\* C19: the suffix is empty exactly when every type of the list is
\* casadi_real (the empty list included) and is "_" + type over the whole
\* list otherwise; every symbol directive reserves symbol + suffix, and
\* the symbol is renamed to symbol + suffix on the lines after its
\* directive only, and only when the suffix is not empty.
C19_SuffixAndRenames ==
  \A e \in sanitized :
    /\ e[3] = StatedText(e[1], e[2])
    /\ ("low" \o StatedSuffix(e[2])) \in added_shorthands_
    /\ e[1] = SourceTwoSymbols =>
         ("fill" \o StatedSuffix(e[2])) \in added_shorthands_
    /\ StatedSuffix(e[2]) = "" <=>
         e[2] \in {<<>>, <<"casadi_real">>, <<"casadi_real", "casadi_real">>}

\* sources were specialized with a list of default types, with a mixed
\* list and with the empty list
C19_DefaultMixedAndEmpty ==
  /\ \E e \in sanitized : e[2] = <<"casadi_real", "casadi_real">>
  /\ \E e \in sanitized : e[2] = <<"casadi_real", "int">>
  /\ \E e \in sanitized : e[2] = <<>>
  /\ "low_casadi_real_int" \in added_shorthands_

---------------------------------------------------------------------------
(* C20: the names of registered functions.                                 *)

\* C20: the k-th registered function, counting from zero, is named
\* casadi_f<k>, also when it was registered from inside the declarations
\* of another one; the registered-function list holds no function twice
\* and no name twice, and every name add_dependency returned for a
\* function is the name of its entry.
C20_DistinctNames ==
  /\ \A i \in 1..Len(added_functions_) :
       added_functions_[i].codegen_name = "casadi_f" \o str(i - 1)
  /\ \A i, j \in 1..Len(added_functions_) :
       i # j =>
         /\ added_functions_[i].f # added_functions_[j].f
         /\ added_functions_[i].codegen_name # added_functions_[j].codegen_name
  /\ \A p \in given_names :
       \E i \in 1..Len(added_functions_) :
         /\ added_functions_[i].f = p[1]
         /\ added_functions_[i].codegen_name = p[2]

\* the function with two dependencies was registered first, and its
\* dependencies from inside its declarations
C20_NestedRegistration ==
  /\ Len(added_functions_) = 3
  /\ added_functions_[1].f = 3
  /\ added_functions_[2].f = 1
  /\ added_functions_[3].f = 2
  /\ steps = 1

---------------------------------------------------------------------------
(* C21: the order of the body section under nested registration.           *)

\* the lines of the body section that are the text of a registered entry:
\* its definition and, with a reference count, its incref and decref
BodyOf(e) ==
  {i \in 1..Len(body) :
     \/ body[i][1] = "codegen" /\ body[i][2] = e.codegen_name
     \/ body[i] = <<"definition", "void " \o e.codegen_name \o "_incref(void)">>
     \/ body[i] = <<"definition", "void " \o e.codegen_name \o "_decref(void)">>}

\* the functions a function registers from its declarations, as stated
DependsOn(f) == IF f = 2 THEN {1} ELSE IF f = 3 THEN {1, 2} ELSE {}

\* C21: the body of every function a function depends on is in the body
\* section before the body of that function, the body text of a function
\* is contiguous, and the body section followed by the buffer is the
\* emitted text in emission order, so text that waited in the buffer when
\* a nested flush ran stays before the text flushed after it.
C21_DependenciesFirstInOrder ==
  /\ \A e \in Range(added_functions_) :
       /\ BodyOf(e) # {}
       /\ \A i, j \in BodyOf(e) : \A k \in i..j : k \in BodyOf(e)
       /\ \A d \in Range(added_functions_) :
            d.f \in DependsOn(e.f) =>
              \A i \in BodyOf(d), j \in BodyOf(e) : i < j
       /\ \A d \in DependsOn(e.f) :
            \E x \in Range(added_functions_) : x.f = d
  /\ body \o buffer = emitted

\* a wrapper waited in the buffer when function 3 was registered, which
\* registered function 2, with a reference count, from its declarations
C21_NestedFlushWithHeldText ==
  /\ Len(added_functions_) = 3
  /\ added_functions_[1].f = 1
  /\ added_functions_[2].f = 3
  /\ added_functions_[3].f = 2
  /\ \E i, j, k \in 1..Len(body) :
       /\ i < j /\ j < k
       /\ body[i][1] = "meta"
       /\ body[j] = <<"definition", "void casadi_f2_incref(void)">>
       /\ body[k] = <<"codegen", "casadi_f1", "fn3">>

---------------------------------------------------------------------------
(* C22: the lookups of a custom naming scheme.                             *)

\* C22: index(entry(i)) = i for every i from 0 below size(),
\* entry(index(n)) = n for every name n of the list, entry(i) fails for
\* every i outside that range and index(n) fails for every name that is
\* not in the list.
C22_LookupsInverse ==
  /\ \A i \in 0..(size - 1) :
       /\ entry(i).error = "none"
       /\ index(entry(i).ret).error = "none"
       /\ index(entry(i).ret).ret = i
  /\ \A n \in Range(entries_) :
       /\ index(n).error = "none"
       /\ entry(index(n).ret).error = "none"
       /\ entry(index(n).ret).ret = n
  /\ \A i \in EntryIndices : (i < 0 \/ i >= size) => entry(i).error # "none"
  /\ \A n \in EntryNames : n \notin Range(entries_) => index(n).error # "none"
  /\ entry_call # <<>> =>
       entry_call = <<entry_call[1], entry(entry_call[1]).ret,
                      entry(entry_call[1]).error>>
  /\ index_call # <<>> =>
       index_call = <<index_call[1], index(index_call[1]).ret,
                      index(index_call[1]).error>>

\* what holds with repeated names as well: index(entry(i)) is the last
\* index that holds the name of entry i, and the three other parts
C22_InverseUpToRepeats ==
  /\ \A i \in 0..(size - 1) :
       /\ index(entry(i).ret).error = "none"
       /\ index(entry(i).ret).ret =
            MaxOf({j \in 0..(size - 1) : entries_[j + 1] = entries_[i + 1]})
  /\ \A n \in Range(entries_) :
       /\ index(n).error = "none"
       /\ entry(index(n).ret).ret = n
  /\ \A i \in EntryIndices : (i < 0 \/ i >= size) => entry(i).error # "none"
  /\ \A n \in EntryNames : n \notin Range(entries_) => index(n).error # "none"

\* a scheme with a repeated name was asked for the name of its first
\* entry and then for the index of that name
C22_RepeatedNameLookedUp ==
  /\ entry_call # <<>> /\ index_call # <<>>
  /\ entry_call[1] = 0
  /\ entry_call[3] = "none"
  /\ index_call[1] = entry_call[2]
  /\ index_call[2] # 0

===========================================================================
